---- MODULE Spec2Model ----
(***************************************************************************)
(* Model of dataset/pipeline.py: the Pipeline composition operators, the   *)
(* sequential executor and the prefetching batch generator.                *)
(***************************************************************************)
EXTENDS Integers, Sequences, FiniteSets, TLC

(* ---------------- bounds of the model ---------------- *)
MaxItems == 3      \* batches per epoch, runs whose chains may raise
MaxDepth == 2      \* prefetch depth of those runs
ResetItems == 3    \* batches per epoch, runs the caller may reset
ResetDepth == 2    \* prefetch depth of those runs
MaxRuns == 2       \* gen_batch calls on one Pipeline
MaxPipes == 4      \* Pipeline objects built by the composing operators
NumDatasets == 2   \* datasets a pipeline can be bound to
MaxCoins == 2      \* random draws of one executor run that may come out 1
MaxList == 3       \* descriptors of an action list given to the executor

(* pipeline.py:414  prefetch = min(prefetch, 62) *)
PoolCap == 62

Min(a, b) == IF a < b THEN a ELSE b

(* ---------------- state of one Pipeline object during iteration -------- *)
VARIABLES
    pipes,            \* the Pipeline objects: dataset and _action_list
    heap,             \* the action dicts the _action_lists refer to
    last,             \* the last operator call: operands, result, state before
    made,             \* the call that built each pipeline
    n,                \* length of the sequence dataset.gen_batch produces
    outcome,          \* what self._exec does on batch i: "ok", "skip", "err"
    prefetch,         \* the prefetch argument of gen_batch
    run,              \* number of the current gen_batch call
    stop_flag,        \* self._stop_flag
    prefetch_count,   \* self._prefetch_count
    prefetch_queue,   \* self._prefetch_queue
    batch_queue,      \* self._batch_queue
    executor,         \* self._executor
    service_executor, \* self._service_executor
    gen_pos,          \* position of the dataset's batch generator
    futures,          \* state of the task submitted for batch i
    ppc,              \* position of _put_batches_into_queue
    cpc,              \* position of _run_batches_from_queue
    cfuture,          \* local 'future' of _run_batches_from_queue
    cbatch,           \* local 'batch' of _run_batches_from_queue
    skip_batch,       \* local 'skip_batch' of _run_batches_from_queue
    gpc,              \* position of the caller / gen_batch generator
    resetBy,          \* who called reset_iter: "none", "gen", "caller"
    out,              \* batches yielded to the caller in the current run
    overtook,         \* pairs <<i, j>>, i < j: task j finished while i ran
    aborted           \* the previous run was reset by the caller mid-flight

runVars == <<n, outcome, prefetch, run, stop_flag, prefetch_count,
             prefetch_queue, batch_queue, executor, service_executor,
             gen_pos, futures, ppc, cpc, cfuture, cbatch, skip_batch, gpc,
             resetBy, out, overtook, aborted>>

algVars == <<pipes, heap, last, made>>

vars == <<algVars, runVars>>

(* ---------------- values ---------------- *)
None == [kind |-> "None"]
Unbound == [run |-> 0, idx |-> 0]          \* a local name no assignment has bound
Sentinel(r) == [run |-> r, idx |-> 0]      \* the None pushed at the end of a stream
Item(r, i) == [run |-> r, idx |-> i]       \* batch i / the future of batch i, of run r

(* queue.Queue(maxsize=m) *)
Queue(m) == [kind |-> "Queue", maxsize |-> m, items |-> <<>>]
\* a bounded queue that takes one item more than its maxsize
FullAboveMax(queue) == Len(queue.items) > queue.maxsize

Full(queue) == Len(queue.items) >= queue.maxsize
Empty(queue) == Len(queue.items) = 0
Put(queue, x) == [queue EXCEPT !.items = Append(@, x)]
Get(queue) == [queue EXCEPT !.items = Tail(@)]

(* concurrent.futures executors *)
Pool(workers) == [kind |-> "Pool", max_workers |-> workers, shut |-> FALSE]

Outcomes == {"ok", "skip", "err"}

(* ======================= the composition operators ====================== *)
PIPELINE_ID == "#_pipeline"
JOIN_ID == "#_join"

\* an optional value: NoVal is Python's None
NoVal == <<>>
Val(x) == <<x>>

\* numbers are fractions <<numerator, denominator>> in lowest terms
RECURSIVE Gcd(_, _)
Gcd(a, b) == IF b = 0 THEN a ELSE Gcd(b, a % b)
Abs(a) == IF a < 0 THEN -a ELSE a
Frac(a, b) == LET g == Gcd(Abs(a), b) IN <<a \div g, b \div g>>
Times(x, y) == Frac(x[1] * y[1], x[2] * y[2])
IntPart(x) == IF x[1] >= 0 THEN x[1] \div x[2] ELSE -((-x[1]) \div x[2])

\* a Python argument: its type and, for a number, its value
PyInt(k) == [type |-> "int", val |-> <<k, 1>>]
PyFloat(a, b) == [type |-> "float", val |-> Frac(a, b)]

\* a mult_option that keeps its first argument when both are set
mult_option_first(a, b) == IF a # NoVal THEN a ELSE b

\* lines 21-23
mult_option(a, b) ==
    IF a # NoVal /\ b # NoVal THEN Val(Times(a[1], b[1]))
    ELSE IF a # NoVal THEN a ELSE b

\* the dicts of an _action_list; tf_queue says whether the dict has the keys
\* put_into_tf_queue adds
ActionDict(name, args) ==
    [name |-> name, args |-> args, proba |-> NoVal, repeat |-> NoVal,
     pipeline |-> 0, datasets |-> <<>>, tf_queue |-> FALSE]
NestedDict(p, proba, repeat) ==
    [name |-> PIPELINE_ID, args |-> <<>>, proba |-> proba, repeat |-> repeat,
     pipeline |-> p, datasets |-> <<>>, tf_queue |-> FALSE]
JoinDict(datasets) ==
    [name |-> JOIN_ID, args |-> <<>>, proba |-> NoVal, repeat |-> NoVal,
     pipeline |-> 0, datasets |-> datasets, tf_queue |-> FALSE]

\* a world w is the pipelines and the dicts: [pipes, heap]
World == [pipes |-> pipes, heap |-> heap]
num_actions(w, p) == Len(w.pipes[p].action_list)
LastDict(w, p) == w.heap[w.pipes[p].action_list[num_actions(w, p)]]
NewId(w) == Len(w.pipes) + 1

\* lines 36-37 and 39-40: the guarded update of the last action's dict.  The
\* list was copied (line 33) but its dicts were not: the update is seen by every
\* pipeline whose list holds this dict.
SetLast(w, p, proba, repeat) ==
    LET addr == w.pipes[p].action_list[num_actions(w, p)]
        d == w.heap[addr]
    IN IF proba # NoVal
       THEN IF d.repeat = NoVal
            THEN [w EXCEPT !.heap[addr].proba = mult_option(proba, d.proba)]
            ELSE w
       ELSE IF repeat # NoVal /\ d.proba = NoVal
            THEN [w EXCEPT !.heap[addr].repeat = mult_option(repeat, d.repeat)]
            ELSE w

\* lines 27-40: Pipeline(dataset, pipeline, proba, repeat); src = 0 is pipeline=None
Construct(w, dataset, src, proba, repeat) ==
    IF src = 0
    THEN [w EXCEPT !.pipes = Append(@, [dataset |-> dataset, action_list |-> <<>>])]
    ELSE LET w1 == [w EXCEPT !.pipes =
                        Append(@, [dataset |-> w.pipes[src].dataset,
                                   action_list |-> w.pipes[src].action_list])]
         IN IF num_actions(w1, NewId(w)) = 1
            THEN SetLast(w1, NewId(w), proba, repeat)
            ELSE w1

\* lines 159-162
append_pipeline(w, target, p, proba, repeat) ==
    [pipes |-> [w.pipes EXCEPT ![target].action_list = Append(@, Len(w.heap) + 1)],
     heap |-> Append(w.heap, NestedDict(p, proba, repeat))]

\* a from_pipeline that looks at the number of actions only, not at the proba
\* or the repeat the last action carries
from_pipeline_by_count(w, p, proba, repeat) ==
    IF num_actions(w, p) = 1 \/ (proba = NoVal /\ repeat = NoVal)
    THEN Construct(w, 0, p, proba, repeat)
    ELSE append_pipeline(Construct(w, 0, 0, NoVal, NoVal), NewId(w), p,
                         proba, repeat)

\* lines 58-76: the new pipeline is NewId(w)
from_pipeline(w, p, proba, repeat) ==
    IF proba = NoVal
    THEN IF repeat = NoVal
         THEN Construct(w, 0, p, NoVal, NoVal)
         ELSE IF num_actions(w, p) = 1 /\ LastDict(w, p).proba = NoVal
              THEN Construct(w, 0, p, NoVal, repeat)
              ELSE append_pipeline(Construct(w, 0, 0, NoVal, NoVal), NewId(w), p,
                                   NoVal, repeat)
    ELSE IF num_actions(w, p) = 1 /\ LastDict(w, p).repeat = NoVal
         THEN Construct(w, 0, p, proba, NoVal)
         ELSE append_pipeline(Construct(w, 0, 0, NoVal, NoVal), NewId(w), p,
                              proba, NoVal)

\* what an operator call gives back: the world after it, the pipeline returned
\* (0 when it raised) and the exception raised ("" when none)
Returned(w, res) == [w |-> w, res |-> res, err |-> ""]
Raised(w, err) == [w |-> w, res |-> 0, err |-> err]

\* lines 78-89.  new_p2 is a temporary: only new_p1 outlives the call.
concat(w, pipe1, pipe2) ==
    LET d1 == w.pipes[pipe1].dataset
        d2 == w.pipes[pipe2].dataset
    IN IF d1 # d2 /\ d1 # 0 /\ d2 # 0
       THEN Raised(w, "ValueError")
       ELSE LET w1 == from_pipeline(w, pipe1, NoVal, NoVal)
                new_p1 == NewId(w)
                w2 == from_pipeline(w1, pipe2, NoVal, NoVal)
                new_p2 == NewId(w1)
                list == w2.pipes[new_p1].action_list \o w2.pipes[new_p2].action_list
            IN Returned([pipes |-> Append(w.pipes,
                                          [dataset |-> IF d1 # 0 THEN d1 ELSE d2,
                                           action_list |-> list]),
                         heap |-> w2.heap],
                        new_p1)

\* lines 99-105
Add(w, self, other) ==
    IF num_actions(w, other) > 0 THEN concat(w, self, other) ELSE Returned(w, self)

\* lines 107-113
Matmul(w, self, other) ==
    IF num_actions(w, self) = 0 THEN Raised(w, "ValueError")
    ELSE IF other.type # "float" /\ other.val \notin {<<0, 1>>, <<1, 1>>}
    THEN Raised(w, "TypeError")
    ELSE LET proba == IF IntPart(other.val) # 1 THEN Val(other.val) ELSE NoVal
         IN Returned(from_pipeline(w, self, proba, NoVal), NewId(w))

\* lines 115-122
Mul(w, self, other) ==
    IF other.val[1] < 0 THEN Raised(w, "ValueError")
    ELSE IF other.type = "float" THEN Raised(w, "ValueError")
    ELSE Returned(from_pipeline(w, self, NoVal, Val(other.val)), NewId(w))

\* lines 124-129
Lshift(w, self, other) ==
    IF other \notin 1..NumDatasets THEN Raised(w, "TypeError")
    ELSE LET w1 == from_pipeline(w, self, NoVal, NoVal)
         IN Returned([w1 EXCEPT !.pipes[NewId(w)].dataset = other], NewId(w))

\* lines 142 / 262, then 152-157: the dict is appended to self's own list,
\* self is copied, and self's list is rebound to a list without the dict
AppendDict(w, self, dict) ==
    LET w1 == [pipes |-> [w.pipes EXCEPT ![self].action_list =
                              Append(@, Len(w.heap) + 1)],
               heap |-> Append(w.heap, dict)]
        w2 == from_pipeline(w1, self, NoVal, NoVal)
    IN Returned([w2 EXCEPT !.pipes[self].action_list =
                     SubSeq(@, 1, Len(@) - 1)],
                NewId(w))

\* lines 139-157: pipeline.name(*args)
AppendAction(w, self, name, args) == AppendDict(w, self, ActionDict(name, args))

\* lines 260-263
Join(w, self, datasets) == AppendDict(w, self, JoinDict(datasets))

\* lines 265-278: the sink keys are added to the dict of the last action, in
\* place, and the pipeline itself is returned
put_into_tf_queue(w, self) ==
    IF num_actions(w, self) > 0
    THEN Returned([w EXCEPT !.heap[w.pipes[self].action_list[num_actions(w, self)]]
                                .tf_queue = TRUE],
                  self)
    ELSE Raised(w, "RuntimeError")

(* ======================= the sequential executor ======================== *)
\* the deepest nesting of pipelines the operators can build is MaxPipes; a
\* deeper call chain never returns and ends in Python's RecursionError
RecursionLimit == MaxPipes + 2

\* a batch is its index and the actions dispatched on it so far; an execution
\* state is the batch, the random draws still to come, the exception raised and
\* the batches forwarded to the sink
Batch(i) == [index |-> i, calls |-> <<>>]
ExecState(batch, coins) == [batch |-> batch, coins |-> coins, err |-> "", sink |-> <<>>]

\* lines 249-253: np.random.binomial(1, proba) == 1
\* (draws after the last of st.coins come out 0)
NeedsExec(action, st) ==
    IF action.proba = NoVal THEN [fire |-> TRUE, st |-> st]
    ELSE LET p == action.proba[1] IN
         IF p[1] < 0 \/ p[1] > p[2]
         THEN [fire |-> FALSE, st |-> [st EXCEPT !.err = "ValueError"]]
         ELSE IF p[1] = 0 THEN [fire |-> FALSE, st |-> st]
         ELSE IF p[1] = p[2] THEN [fire |-> TRUE, st |-> st]
         ELSE IF st.coins = <<>> THEN [fire |-> FALSE, st |-> st]
         ELSE [fire |-> Head(st.coins), st |-> [st EXCEPT !.coins = Tail(@)]]

\* lines 212 and 220: range(action['repeat'] or 1)
Range(repeat) ==
    IF repeat = NoVal THEN 1 ELSE IF repeat[1][1] = 0 THEN 1 ELSE repeat[1][1]

\* lines 213-215: the action method is called with the batch and the arguments
Dispatch(batch, name, args) ==
    [batch EXCEPT !.calls = Append(@, [name |-> name, args |-> args])]

RECURSIVE DispatchTimes(_, _, _, _)
DispatchTimes(batch, name, args, count) ==
    IF count <= 0 THEN batch
    ELSE DispatchTimes(Dispatch(batch, name, args), name, args, count - 1)

\* lines 210-216
exec_one_action(st, action, args) ==
    LET g == NeedsExec(action, st) IN
    IF g.st.err # "" \/ ~g.fire THEN g.st
    ELSE [g.st EXCEPT !.batch =
              DispatchTimes(@, action.name, args, Range(action.repeat))]

\* lines 245-246: if 'tf_queue' in _action: self._put_batch_into_tf_queue(...)
ForwardToSink(st, action) ==
    IF st.err = "" /\ action.tf_queue
    THEN [st EXCEPT !.sink = Append(@, st.batch)]
    ELSE st

\* joined batches handed over in the reverse of the source order
JoinedArgsReversed(joined, batch, args) ==
    IF joined = NoVal THEN args
    ELSE [k \in 1..Len(joined[1]) |->
              [dataset |-> joined[1][Len(joined[1]) + 1 - k],
               index |-> batch.index]] \o args

\* lines 233-241: one batch per joined dataset, before the action's own args
JoinedArgs(joined, batch, args) ==
    IF joined = NoVal THEN args
    ELSE [k \in 1..Len(joined[1]) |->
              [dataset |-> joined[1][k], index |-> batch.index]] \o args

RECURSIVE exec_all_actions(_, _, _, _, _),
          exec_from(_, _, _, _, _, _, _),
          exec_times(_, _, _, _, _, _)

\* lines 224-226: 'action_list or self._action_list' takes self's list for an
\* empty list as well as for None
exec_all_actions(w, self, st, action_list, depth) ==
    IF depth > RecursionLimit THEN [st EXCEPT !.err = "RecursionError"]
    ELSE exec_from(w, self, st,
                   IF action_list = <<>> THEN w.pipes[self].action_list
                   ELSE action_list,
                   1, NoVal, depth)

\* lines 227-247: the loop over the list, from position k on
exec_from(w, self, st, action_list, k, joined_sets, depth) ==
    IF st.err # "" \/ k > Len(action_list) THEN st
    ELSE LET action == w.heap[action_list[k]] IN
         IF action.name = JOIN_ID
         THEN exec_from(w, self, st, action_list, k + 1, Val(action.datasets), depth)
         ELSE IF action.name = PIPELINE_ID
         THEN LET g == NeedsExec(action, st)
                  st1 == IF g.st.err # "" \/ ~g.fire THEN g.st
                         ELSE exec_times(w, self, g.st,
                                         w.pipes[action.pipeline].action_list,
                                         Range(action.repeat), depth + 1)
              IN exec_from(w, self, st1, action_list, k + 1, joined_sets, depth)
         ELSE exec_from(w, self,
                        ForwardToSink(
                            exec_one_action(st, action,
                                            JoinedArgs(joined_sets, st.batch,
                                                       action.args)),
                            action),
                        action_list, k + 1, NoVal, depth)

\* lines 218-222: the loop of _exec_nested_pipeline
exec_times(w, self, st, action_list, count, depth) ==
    IF st.err # "" \/ count <= 0 THEN st
    ELSE exec_times(w, self, exec_all_actions(w, self, st, action_list, depth),
                    action_list, count - 1, depth)

\* lines 255-258
Exec(w, self, batch, coins) ==
    exec_all_actions(w, self, ExecState(batch, coins), <<>>, 1)

(* ======================= operator calls as actions ====================== *)
Names == {"a", "b"}
ArgsOf(name) == IF name = "a" THEN <<[const |-> 1]>> ELSE <<>>
ProbaArgs == {PyFloat(1, 2), PyFloat(3, 2), PyInt(1), PyInt(2)}
RepeatArgs == {PyInt(0), PyInt(2), PyInt(-1), PyFloat(1, 2)}
CoinSeqs == UNION {[1..k -> BOOLEAN] : k \in 0..MaxCoins}

NoExec == ExecState(Batch(0), <<>>)

\* what a pipeline is to its user: its dataset and its actions, in order
View(w, p) ==
    [dataset |-> w.pipes[p].dataset,
     actions |-> [k \in 1..num_actions(w, p) |-> w.heap[w.pipes[p].action_list[k]]]]

\* the record of the call that built a pipeline: the operator, its operands and
\* what the first operand was when the call was made
Maker(op, a, b, src) == [op |-> op, a |-> a, b |-> b, src |-> src]
Root == Maker("init", 0, 0, [dataset |-> 0, actions |-> <<>>])

\* the record of an operator call
Call(op, a, b, r, before) ==
    [op |-> op, a |-> a, b |-> b, res |-> r.res, err |-> r.err,
     before |-> before, exec |-> NoExec]

\* A call that raised, a call that returned one of its operands untouched and
\* a run of the executor leave every pipeline as it was: whatever can follow
\* them can follow the state before them, so the model goes on from the calls
\* that built or changed a pipeline only.
Productive == last.op = "init" \/ World # last.before

Commit(op, a, b, r) ==
    /\ Productive
    /\ Len(r.w.pipes) <= MaxPipes
    /\ pipes' = r.w.pipes
    /\ heap' = r.w.heap
    /\ last' = Call(op, a, b, r, World)
    /\ made' = IF Len(r.w.pipes) > Len(pipes)
               THEN Append(made, Maker(op, a, b, View(World, a)))
               ELSE made
    /\ UNCHANGED runVars

AlgInit ==
    /\ pipes = <<[dataset |-> 0, action_list |-> <<>>],
                 [dataset |-> 1, action_list |-> <<>>]>>
    /\ heap = <<>>
    /\ made = <<Root, Root>>
    /\ last = Call("init", 0, 0, Returned([pipes |-> <<>>, heap |-> <<>>], 0),
                   [pipes |-> <<>>, heap |-> <<>>])

Ids == 1..Len(pipes)

DoAppendAction ==
    \E self \in Ids, name \in Names :
        Commit("append", self, 0, AppendAction(World, self, name, ArgsOf(name)))

DoJoin ==
    \E self \in Ids :
        Commit("join", self, 0, Join(World, self, <<NumDatasets>>))

DoAdd ==
    \E self \in Ids, other \in Ids :
        Commit("add", self, other, Add(World, self, other))

DoMatmul ==
    \E self \in Ids, other \in ProbaArgs :
        Commit("matmul", self, other, Matmul(World, self, other))

DoMul ==
    \E self \in Ids, other \in RepeatArgs :
        Commit("mul", self, other, Mul(World, self, other))

DoLshift ==
    \E self \in Ids, other \in 1..NumDatasets :
        Commit("lshift", self, other, Lshift(World, self, other))

DoPutIntoTfQueue ==
    \E self \in Ids :
        Commit("sink", self, 0, put_into_tf_queue(World, self))

\* lines 368-372: create_batch runs the pipeline on a new batch
DoExec ==
    \E self \in Ids, coins \in CoinSeqs :
        /\ Productive
        /\ last' = [Call("exec", self, 0, Returned(World, self), World)
                        EXCEPT !.exec = Exec(World, self, Batch(1), coins)]
        /\ UNCHANGED <<pipes, heap, made, runVars>>

AlgNext ==
    \/ DoAppendAction \/ DoJoin \/ DoAdd \/ DoMatmul \/ DoMul \/ DoLshift
    \/ DoPutIntoTfQueue \/ DoExec

(* ---------------- Init: a Pipeline on which gen_batch is about to run ---- *)
Fresh ==
    /\ run = 1
    /\ stop_flag = FALSE
    /\ prefetch_count = None
    /\ prefetch_queue = None
    /\ batch_queue = None
    /\ executor = None
    /\ service_executor = None
    /\ gen_pos = 1
    /\ futures = [i \in 1..n |-> "none"]
    /\ ppc = "none"
    /\ cpc = "none"
    /\ cfuture = Unbound
    /\ cbatch = Unbound
    /\ skip_batch = FALSE
    /\ gpc = "idle"
    /\ resetBy = "none"
    /\ out = <<>>
    /\ overtook = {}
    /\ aborted = FALSE

\* what a run reads and never writes: its arguments, its dataset's sequence and
\* the pipeline's action list
config == <<n, outcome, prefetch, algVars>>
handles == <<prefetch_count, prefetch_queue, batch_queue, executor, service_executor>>
producerVars == <<ppc>>
consumerVars == <<cpc, cfuture, cbatch, skip_batch>>
callerVars == <<gpc, resetBy, out, aborted, run>>

(* ---------------- _put_batches_into_queue (producer service task) -------- *)
\* line 326 / 335: while not self._stop_flag
ProducerLoop ==
    /\ ppc = "p_loop"
    /\ ppc' = IF stop_flag THEN "p_final" ELSE "p_token"
    /\ UNCHANGED <<config, handles, stop_flag, gen_pos, futures, consumerVars,
                   callerVars, overtook>>

\* line 327: self._prefetch_count.put(1, block=True)
ProducerToken ==
    /\ ppc = "p_token"
    /\ ~Full(prefetch_count)
    /\ prefetch_count' = Put(prefetch_count, 1)
    /\ ppc' = "p_next"
    /\ UNCHANGED <<config, prefetch_queue, batch_queue, executor, service_executor,
                   stop_flag, gen_pos, futures, consumerVars, callerVars, overtook>>

\* a producer that stops one batch early
SubmitNextShort(pos) ==
    IF pos >= n THEN [pc |-> "p_final", pos |-> pos, fut |-> futures]
    ELSE IF executor.shut THEN [pc |-> "dead", pos |-> pos + 1, fut |-> futures]
    ELSE [pc |-> "p_put", pos |-> pos + 1, fut |-> [futures EXCEPT ![pos] = "pending"]]

\* lines 328-333: next(gen_batch); on StopIteration break, else submit to the pool
\* (submit on a pool that was shut down raises RuntimeError: the task dies)
SubmitNext(pos) ==
    IF pos > n THEN [pc |-> "p_final", pos |-> pos, fut |-> futures]
    ELSE IF executor.shut THEN [pc |-> "dead", pos |-> pos + 1, fut |-> futures]
    ELSE [pc |-> "p_put", pos |-> pos + 1, fut |-> [futures EXCEPT ![pos] = "pending"]]

ProducerNext ==
    /\ ppc = "p_next"
    /\ LET r == SubmitNext(gen_pos) IN
        /\ ppc' = r.pc
        /\ gen_pos' = r.pos
        /\ futures' = r.fut
    /\ UNCHANGED <<config, handles, stop_flag, consumerVars, callerVars, overtook>>

\* a future queue that hands out the newest future first
EnqueueFutureLifo(queue, future) == [queue EXCEPT !.items = <<future>> \o @]

\* line 334: self._prefetch_queue.put(future, block=True)
EnqueueFuture(queue, future) == Put(queue, future)

ProducerPut ==
    /\ ppc = "p_put"
    /\ ~Full(prefetch_queue)
    /\ prefetch_queue' = EnqueueFuture(prefetch_queue, Item(run, gen_pos - 1))
    /\ ppc' = "p_loop"
    /\ UNCHANGED <<config, prefetch_count, batch_queue, executor, service_executor,
                   stop_flag, gen_pos, futures, consumerVars, callerVars, overtook>>

\* line 335: self._prefetch_queue.put(None, block=True)
ProducerFinal ==
    /\ ppc = "p_final"
    /\ ~Full(prefetch_queue)
    /\ prefetch_queue' = Put(prefetch_queue, Sentinel(run))
    /\ ppc' = "done"
    /\ UNCHANGED <<config, prefetch_count, batch_queue, executor, service_executor,
                   stop_flag, gen_pos, futures, consumerVars, callerVars, overtook>>

(* ---------------- worker pool: self._exec(batch, new_loop=True) ---------- *)
\* A submitted task finishes at any time, in any order.  The admission tokens
\* keep at most prefetch + 1 tasks unfinished, which is the pool's size, so no
\* task waits for a free worker.
WorkerFinish(i) ==
    /\ futures[i] = "pending"
    /\ futures' = [futures EXCEPT ![i] = "done"]
    /\ overtook' = overtook \cup {<<j, i>> : j \in {k \in 1..(i - 1) : futures[k] = "pending"}}
    /\ UNCHANGED <<config, handles, stop_flag, gen_pos, producerVars, consumerVars,
                   callerVars>>

(* ---------------- _run_batches_from_queue (consumer service task) -------- *)
\* line 339: while not self._stop_flag
ConsumerLoop ==
    /\ cpc = "c_loop"
    /\ cpc' = IF stop_flag THEN "done" ELSE "c_get"
    /\ UNCHANGED <<config, handles, stop_flag, gen_pos, futures, producerVars,
                   cfuture, cbatch, skip_batch, callerVars, overtook>>

\* lines 340-342: future = self._prefetch_queue.get(block=True)
ConsumerGet ==
    /\ cpc = "c_get"
    /\ ~Empty(prefetch_queue)
    /\ cfuture' = Head(prefetch_queue.items)
    /\ prefetch_queue' = Get(prefetch_queue)
    /\ cpc' = IF Head(prefetch_queue.items).idx = 0 THEN "c_sentinel" ELSE "c_result"
    /\ UNCHANGED <<config, prefetch_count, batch_queue, executor, service_executor,
                   stop_flag, gen_pos, futures, producerVars, cbatch, skip_batch,
                   callerVars, overtook>>

\* lines 343-344: self._batch_queue.put(None); break
ConsumerSentinel ==
    /\ cpc = "c_sentinel"
    /\ ~Full(batch_queue)
    /\ batch_queue' = Put(batch_queue, Sentinel(cfuture.run))
    /\ cpc' = "done"
    /\ UNCHANGED <<config, prefetch_count, prefetch_queue, executor, service_executor,
                   stop_flag, gen_pos, futures, producerVars, cfuture, cbatch,
                   skip_batch, callerVars, overtook>>

\* lines 346-355: try: batch = future.result() / except SkipBatchException /
\* except Exception / finally: if not skip_batch.  The local 'batch' is bound only
\* by a successful result(); reading it unbound raises UnboundLocalError, which
\* ends the task.
HandleResult(oc, future, batch, skip) ==
    LET b == IF oc = "ok" THEN future ELSE batch
        s == IF oc = "skip" THEN TRUE ELSE skip
    IN [batch |-> b, skip |-> s,
        pc |-> IF s THEN "c_loop" ELSE IF b = Unbound THEN "dead" ELSE "c_put"]

ConsumerResult ==
    /\ cpc = "c_result"
    /\ futures[cfuture.idx] = "done"
    /\ LET r == HandleResult(outcome[cfuture.idx], cfuture, cbatch, skip_batch) IN
        /\ cbatch' = r.batch
        /\ skip_batch' = r.skip
        /\ cpc' = r.pc
    /\ UNCHANGED <<config, handles, stop_flag, gen_pos, futures, producerVars,
                   cfuture, callerVars, overtook>>

\* lines 356-358: self._batch_queue.put(batch, block=True); skip_batch = False
ConsumerPut ==
    /\ cpc = "c_put"
    /\ ~Full(batch_queue)
    /\ batch_queue' = Put(batch_queue, cbatch)
    /\ skip_batch' = FALSE
    /\ cpc' = "c_loop"
    /\ UNCHANGED <<config, prefetch_count, prefetch_queue, executor, service_executor,
                   stop_flag, gen_pos, futures, producerVars, cfuture, cbatch,
                   callerVars, overtook>>

(* ---------------- gen_batch (runs in the caller's thread) --------------- *)
\* a gen_batch that leaves the stop flag as the last run set it
StartRunKeepFlag ==
    /\ gpc = "idle"
    /\ gen_pos' = 1
    /\ IF prefetch > 0
       THEN /\ executor' = Pool(Min(prefetch, PoolCap) + 1)
            /\ prefetch_count' = Queue(Min(prefetch, PoolCap) + 1)
            /\ prefetch_queue' = Queue(Min(prefetch, PoolCap))
            /\ batch_queue' = Queue(1)
            /\ service_executor' = Pool(2)
            /\ futures' = [i \in 1..n |-> "none"]
            /\ ppc' = "p_loop"
            /\ cpc' = "c_loop"
            /\ cfuture' = Unbound
            /\ cbatch' = Unbound
            /\ skip_batch' = FALSE
            /\ gpc' = "g_loop"
            /\ UNCHANGED stop_flag
       ELSE /\ gpc' = "seq_loop"
            /\ UNCHANGED <<handles, stop_flag, futures, producerVars, consumerVars>>
    /\ UNCHANGED <<config, resetBy, out, aborted, run, overtook>>

\* lines 410-429: a new dataset generator; with prefetch > 0 the pools, the
\* queues and the two service tasks of this run
StartRun ==
    /\ gpc = "idle"
    /\ gen_pos' = 1
    /\ IF prefetch > 0
       THEN /\ executor' = Pool(Min(prefetch, PoolCap) + 1)
            /\ stop_flag' = FALSE
            /\ prefetch_count' = Queue(Min(prefetch, PoolCap) + 1)
            /\ prefetch_queue' = Queue(Min(prefetch, PoolCap))
            /\ batch_queue' = Queue(1)
            /\ service_executor' = Pool(2)
            /\ futures' = [i \in 1..n |-> "none"]
            /\ ppc' = "p_loop"
            /\ cpc' = "c_loop"
            /\ cfuture' = Unbound
            /\ cbatch' = Unbound
            /\ skip_batch' = FALSE
            /\ gpc' = "g_loop"
       ELSE /\ gpc' = "seq_loop"
            /\ UNCHANGED <<handles, stop_flag, futures, producerVars, consumerVars>>
    /\ UNCHANGED <<config, resetBy, out, aborted, run, overtook>>

\* line 431: while not self._stop_flag; line 449: self.reset_iter()
GenLoop ==
    /\ gpc = "g_loop"
    /\ IF stop_flag
       THEN gpc' = "r_flag" /\ resetBy' = "gen"
       ELSE gpc' = "g_get" /\ UNCHANGED resetBy
    /\ UNCHANGED <<config, handles, stop_flag, gen_pos, futures, producerVars,
                   consumerVars, out, aborted, run, overtook>>

\* lines 432-435, 438-439: batch_res = self._batch_queue.get(); yield or stop
Yield(output, batch_res) == Append(output, batch_res)

GenGet ==
    /\ gpc = "g_get"
    /\ ~Empty(batch_queue)
    /\ batch_queue' = Get(batch_queue)
    /\ IF Head(batch_queue.items).idx # 0
       THEN /\ out' = Yield(out, Head(batch_queue.items))
            /\ gpc' = "g_yield"
            /\ UNCHANGED stop_flag
       ELSE /\ stop_flag' = TRUE
            /\ gpc' = "g_loop"
            /\ UNCHANGED out
    /\ UNCHANGED <<config, prefetch_count, prefetch_queue, executor, service_executor,
                   gen_pos, futures, producerVars, consumerVars, resetBy, aborted,
                   run, overtook>>

\* the caller asks the suspended generator for the next batch
CallerNext ==
    /\ gpc \in {"g_yield", "seq_yield"}
    /\ gpc' = IF gpc = "g_yield" THEN "g_release" ELSE "seq_loop"
    /\ UNCHANGED <<config, handles, stop_flag, gen_pos, futures, producerVars,
                   consumerVars, resetBy, out, aborted, run, overtook>>

\* lines 436-437: self._prefetch_count.get(block=True)
GenRelease ==
    /\ gpc = "g_release"
    /\ ~Empty(prefetch_count)
    /\ prefetch_count' = Get(prefetch_count)
    /\ gpc' = "g_loop"
    /\ UNCHANGED <<config, prefetch_queue, batch_queue, executor, service_executor,
                   stop_flag, gen_pos, futures, producerVars, consumerVars, resetBy,
                   out, aborted, run, overtook>>

\* lines 441-447: for batch in batch_generator: try self._exec(batch) ...
\* Skip is swallowed, any other exception leaves the generator.
SeqStep(pos, output) ==
    IF pos > n THEN [pc |-> "r_flag", pos |-> pos, out |-> output]
    ELSE IF outcome[pos] = "ok"
         THEN [pc |-> "seq_yield", pos |-> pos + 1, out |-> Yield(output, Item(run, pos))]
    ELSE IF outcome[pos] = "skip"
         THEN [pc |-> "seq_loop", pos |-> pos + 1, out |-> output]
    ELSE [pc |-> "raised", pos |-> pos + 1, out |-> output]

SeqLoop ==
    /\ gpc = "seq_loop"
    /\ LET r == SeqStep(gen_pos, out) IN
        /\ gpc' = r.pc
        /\ gen_pos' = r.pos
        /\ out' = r.out
        /\ resetBy' = IF r.pc = "r_flag" THEN "gen" ELSE resetBy
    /\ UNCHANGED <<config, handles, stop_flag, futures, producerVars, consumerVars,
                   aborted, run, overtook>>

(* ---------------- reset_iter (runs in the caller's thread) --------------- *)
\* the caller calls reset_iter while the generator is suspended at its yield
CallerReset ==
    /\ gpc \in {"g_yield", "seq_yield"}
    /\ gpc' = "r_flag"
    /\ resetBy' = "caller"
    /\ UNCHANGED <<config, handles, stop_flag, gen_pos, futures, producerVars,
                   consumerVars, out, aborted, run, overtook>>

\* line 387: self._stop_flag = True
ResetFlag ==
    /\ gpc = "r_flag"
    /\ stop_flag' = TRUE
    /\ gpc' = "r_prefetch_queue"
    /\ UNCHANGED <<config, handles, gen_pos, futures, producerVars, consumerVars,
                   resetBy, out, aborted, run, overtook>>

\* lines 377-379: if queue is not None: while not queue.empty():
ClearTest(queue, body, next) ==
    IF queue = None THEN next ELSE IF Empty(queue) THEN next ELSE body

\* line 389: _clear_queue(self._prefetch_queue)
ResetTestPrefetchQueue ==
    /\ gpc = "r_prefetch_queue"
    /\ gpc' = ClearTest(prefetch_queue, "r_prefetch_queue_get", "r_batch_queue")
    /\ UNCHANGED <<config, handles, stop_flag, gen_pos, futures, producerVars,
                   consumerVars, resetBy, out, aborted, run, overtook>>

\* lines 380-381: queue.get(block=True); queue.task_done()
ResetGetPrefetchQueue ==
    /\ gpc = "r_prefetch_queue_get"
    /\ ~Empty(prefetch_queue)
    /\ prefetch_queue' = Get(prefetch_queue)
    /\ gpc' = "r_prefetch_queue"
    /\ UNCHANGED <<config, prefetch_count, batch_queue, executor, service_executor,
                   stop_flag, gen_pos, futures, producerVars, consumerVars, resetBy,
                   out, aborted, run, overtook>>

\* line 390: _clear_queue(self._batch_queue)
ResetTestBatchQueue ==
    /\ gpc = "r_batch_queue"
    /\ gpc' = ClearTest(batch_queue, "r_batch_queue_get", "r_prefetch_count")
    /\ UNCHANGED <<config, handles, stop_flag, gen_pos, futures, producerVars,
                   consumerVars, resetBy, out, aborted, run, overtook>>

ResetGetBatchQueue ==
    /\ gpc = "r_batch_queue_get"
    /\ ~Empty(batch_queue)
    /\ batch_queue' = Get(batch_queue)
    /\ gpc' = "r_batch_queue"
    /\ UNCHANGED <<config, prefetch_count, prefetch_queue, executor, service_executor,
                   stop_flag, gen_pos, futures, producerVars, consumerVars, resetBy,
                   out, aborted, run, overtook>>

\* line 391: _clear_queue(self._prefetch_count)
ResetTestPrefetchCount ==
    /\ gpc = "r_prefetch_count"
    /\ gpc' = ClearTest(prefetch_count, "r_prefetch_count_get", "r_executor")
    /\ UNCHANGED <<config, handles, stop_flag, gen_pos, futures, producerVars,
                   consumerVars, resetBy, out, aborted, run, overtook>>

ResetGetPrefetchCount ==
    /\ gpc = "r_prefetch_count_get"
    /\ ~Empty(prefetch_count)
    /\ prefetch_count' = Get(prefetch_count)
    /\ gpc' = "r_prefetch_count"
    /\ UNCHANGED <<config, prefetch_queue, batch_queue, executor, service_executor,
                   stop_flag, gen_pos, futures, producerVars, consumerVars, resetBy,
                   out, aborted, run, overtook>>

\* lines 383-385: executor.shutdown() refuses new work at once, then waits
Shutdown(pool) == IF pool = None THEN None ELSE [pool EXCEPT !.shut = TRUE]

\* line 393: _stop_executor(self._executor)
ResetStopExecutor ==
    /\ gpc = "r_executor"
    /\ executor' = Shutdown(executor)
    /\ gpc' = "r_executor_wait"
    /\ UNCHANGED <<config, prefetch_count, prefetch_queue, batch_queue,
                   service_executor, stop_flag, gen_pos, futures, producerVars,
                   consumerVars, resetBy, out, aborted, run, overtook>>

ResetExecutorJoined ==
    /\ gpc = "r_executor_wait"
    /\ \A i \in 1..n : futures[i] # "pending"
    /\ gpc' = "r_service"
    /\ UNCHANGED <<config, handles, stop_flag, gen_pos, futures, producerVars,
                   consumerVars, resetBy, out, aborted, run, overtook>>

\* line 394: _stop_executor(self._service_executor)
ResetStopService ==
    /\ gpc = "r_service"
    /\ service_executor' = Shutdown(service_executor)
    /\ gpc' = "r_service_wait"
    /\ UNCHANGED <<config, prefetch_count, prefetch_queue, batch_queue, executor,
                   stop_flag, gen_pos, futures, producerVars, consumerVars, resetBy,
                   out, aborted, run, overtook>>

TaskOver(pc) == pc \in {"none", "done", "dead"}

ResetServiceJoined ==
    /\ gpc = "r_service_wait"
    /\ TaskOver(ppc) /\ TaskOver(cpc)
    /\ gpc' = "r_null"
    /\ UNCHANGED <<config, handles, stop_flag, gen_pos, futures, producerVars,
                   consumerVars, resetBy, out, aborted, run, overtook>>

\* lines 396-402: every handle becomes None; self.dataset.reset_iter()
ResetNull ==
    /\ gpc = "r_null"
    /\ executor' = None
    /\ service_executor' = None
    /\ prefetch_count' = None
    /\ prefetch_queue' = None
    /\ batch_queue' = None
    /\ gen_pos' = 1
    /\ gpc' = "finished"
    /\ UNCHANGED <<config, stop_flag, futures, producerVars, consumerVars, resetBy,
                   out, aborted, run, overtook>>

\* the caller calls gen_batch again on the same Pipeline
NewRun ==
    /\ gpc = "finished"
    /\ run < MaxRuns
    /\ run' = run + 1
    /\ gpc' = "idle"
    /\ out' = <<>>
    /\ aborted' = (resetBy = "caller")
    /\ resetBy' = "none"
    /\ overtook' = {}
    /\ UNCHANGED <<config, handles, stop_flag, gen_pos, futures, producerVars,
                   consumerVars>>

\* one gen_batch call, run to its end by a caller that keeps asking for batches;
\* the chain of each batch returns, raises Skip or raises another exception
RunInit ==
    /\ n \in 0..MaxItems
    /\ outcome \in [1..n -> Outcomes]
    /\ prefetch \in 0..MaxDepth
    /\ Fresh
    /\ AlgInit

\* prefetching gen_batch calls on one Pipeline whose chain never raises; the
\* caller may call reset_iter between two batches and may call gen_batch again
ResetInit ==
    /\ n \in 0..ResetItems
    /\ outcome = [i \in 1..n |-> "ok"]
    /\ prefetch \in 1..ResetDepth
    /\ Fresh
    /\ AlgInit

\* the service tasks, the workers, the generator and the teardown it runs when
\* the stream ends: by then the sentinel has passed through the future queue and
\* the delivery queue, so the teardown finds both empty (QueuesEmptyAtEnd)
PrefetchNext ==
    \/ ProducerLoop \/ ProducerToken \/ ProducerNext \/ ProducerPut \/ ProducerFinal
    \/ \E i \in 1..n : WorkerFinish(i)
    \/ ConsumerLoop \/ ConsumerGet \/ ConsumerSentinel \/ ConsumerResult \/ ConsumerPut
    \/ StartRun \/ GenLoop \/ GenGet \/ CallerNext \/ GenRelease
    \/ ResetFlag
    \/ ResetTestPrefetchQueue \/ ResetTestBatchQueue
    \/ ResetTestPrefetchCount \/ ResetGetPrefetchCount
    \/ ResetStopExecutor \/ ResetExecutorJoined
    \/ ResetStopService \/ ResetServiceJoined \/ ResetNull

RunNext == PrefetchNext \/ SeqLoop

ResetNext ==
    \/ PrefetchNext
    \/ ResetGetPrefetchQueue \/ ResetGetBatchQueue
    \/ CallerReset \/ NewRun

SpecRun == RunInit /\ [][RunNext]_vars

SpecReset == ResetInit /\ [][ResetNext]_vars

\* pipelines built by the composing operators and run on one batch; no
\* gen_batch call is made
ComposeInit ==
    /\ n = 0
    /\ outcome = <<>>
    /\ prefetch = 0
    /\ Fresh
    /\ AlgInit

SpecCompose == ComposeInit /\ [][AlgNext]_vars

\* The executor run on one batch over the action lists the operators can
\* build: a pipeline of at most MaxList descriptors (actions, join markers and
\* nested-pipeline descriptors, with proba or repeat set) and the pipeline its
\* nested descriptors refer to.  The action at address k has the argument k.
Gates == {<<NoVal, NoVal>>, <<Val(<<1, 2>>), NoVal>>, <<NoVal, Val(<<2, 1>>)>>}

\* P * 0 is a pipeline the operators build as well
Shapes ==
    {[kind |-> kd, proba |-> g[1], repeat |-> g[2], datasets |-> <<>>] :
        kd \in {"action", "nested"}, g \in Gates}
    \cup {[kind |-> "action", proba |-> NoVal, repeat |-> Val(<<0, 1>>),
           datasets |-> <<>>]}
    \cup {[kind |-> "join", proba |-> NoVal, repeat |-> NoVal, datasets |-> ds] :
            ds \in {<<1>>, <<NumDatasets, 1>>}}

InnerShapes == {sh \in Shapes : sh.kind # "nested"}

InnerLists ==
    {<<>>} \cup {<<x>> : x \in {sh \in InnerShapes : sh.kind = "action"}}
    \cup {<<x, y>> : x \in {sh \in InnerShapes : sh.datasets = <<NumDatasets, 1>>},
                     y \in {sh \in InnerShapes : sh.kind = "action"
                                                  /\ sh.proba = NoVal
                                                  /\ sh.repeat = NoVal}}

Descriptor(shape, k, inner) ==
    IF shape.kind = "action"
    THEN [ActionDict("a", <<[const |-> k]>>)
              EXCEPT !.proba = shape.proba, !.repeat = shape.repeat]
    ELSE IF shape.kind = "join" THEN JoinDict(shape.datasets)
    ELSE NestedDict(inner, shape.proba, shape.repeat)

ExecInit ==
    /\ n = 0
    /\ outcome = <<>>
    /\ prefetch = 0
    /\ Fresh
    /\ \E len \in 0..MaxList, inner \in InnerLists :
          \E outer \in [1..len -> Shapes] :
            /\ heap = [k \in 1..(len + Len(inner)) |->
                          IF k <= len THEN Descriptor(outer[k], k, 2)
                          ELSE Descriptor(inner[k - len], k, 2)]
            /\ pipes = <<[dataset |-> 1, action_list |-> [k \in 1..len |-> k]],
                         [dataset |-> 0,
                          action_list |-> [k \in 1..Len(inner) |-> len + k]]>>
    /\ made = <<Root, Root>>
    /\ last = Call("init", 0, 0, Returned([pipes |-> <<>>, heap |-> <<>>], 0),
                   [pipes |-> <<>>, heap |-> <<>>])

SpecExec == ExecInit /\ [][DoExec]_vars

\* Pipelines built from one empty pipeline by the composing operators alone.  A
\* call that raises or gives back its operand builds nothing and leaves every
\* pipeline as it was: only the calls that built a pipeline are steps here.
BuildInit ==
    /\ n = 0
    /\ outcome = <<>>
    /\ prefetch = 0
    /\ Fresh
    /\ pipes = <<[dataset |-> 0, action_list |-> <<>>]>>
    /\ heap = <<>>
    /\ made = <<Root>>
    /\ last = Call("init", 0, 0, Returned([pipes |-> <<>>, heap |-> <<>>], 0),
                   [pipes |-> <<>>, heap |-> <<>>])

Built == Len(pipes') > Len(pipes)

BuildNext ==
    \/ DoAppendAction /\ Built
    \/ DoJoin /\ Built
    \/ DoAdd /\ Built
    \/ DoMatmul /\ Built
    \/ DoMul /\ Built
    \/ DoLshift /\ Built

SpecBuild == BuildInit /\ [][BuildNext]_vars

(* ======================= properties of a run ============================ *)
\* under SpecRun the teardown never has to take an item out of the future
\* queue or the delivery queue
QueuesEmptyAtEnd == gpc \notin {"r_prefetch_queue_get", "r_batch_queue_get"}

IsPrefix(s, t) == Len(s) <= Len(t) /\ \A k \in 1..Len(s) : s[k] = t[k]

Generated == [i \in 1..n |-> Item(run, i)]
Without(i) == SelectSeq(Generated, LAMBDA b : b.idx # i)

EndedNaturally == gpc = "finished" /\ resetBy = "gen"
InReset == gpc \in {"r_flag", "r_prefetch_queue", "r_prefetch_queue_get",
                    "r_batch_queue", "r_batch_queue_get", "r_prefetch_count",
                    "r_prefetch_count_get", "r_executor", "r_executor_wait",
                    "r_service", "r_service_wait", "r_null"}

AllOk == \A i \in 1..n : outcome[i] = "ok"
OnlySkip(i) == outcome[i] = "skip" /\ \A j \in 1..n : j # i => outcome[j] = "ok"

\* the whole prefetch = 0 loop of gen_batch (lines 441-447), run to its end
RECURSIVE SequentialRun(_, _)
SequentialRun(pos, output) ==
    LET r == SeqStep(pos, output) IN
    IF r.pc \in {"r_flag", "raised"} THEN r.out ELSE SequentialRun(r.pos, r.out)

\* C1: in a prefetching run where exactly item i raises Skip, the stream the
\* caller has received when the run ends is the generated sequence without i.
C1_SkipRemovesOnlyThatItem ==
    \A i \in 1..n :
        (prefetch > 0 /\ OnlySkip(i) /\ EndedNaturally)
            => out = Without(i)

\* C2: in a prefetching run batches are yielded in generation order whatever
\* the order the workers finish in: no batch is yielded before an earlier one.
C2_GenerationOrder ==
    prefetch > 0 =>
        \A a, b \in DOMAIN out : a < b => out[a].idx <= out[b].idx

\* C2 witness: two batches were yielded in generation order although the
\* later one's task finished first.
C2_Witness ==
    /\ prefetch > 0
    /\ \E a, b \in DOMAIN out :
        a < b /\ out[a].idx < out[b].idx /\ <<out[a].idx, out[b].idx>> \in overtook

\* C3: when no batch raises, the stream of a prefetching run is at every moment
\* a prefix of, and at the end of the run equal to, the stream the prefetch = 0
\* loop yields.
C3_PrefetchEqualsSequential ==
    AllOk =>
        /\ IsPrefix(out, SequentialRun(1, <<>>))
        /\ EndedNaturally => out = SequentialRun(1, <<>>)

\* C3 witness: a prefetching run of several batches, whose tasks finished out
\* of order, ended with the sequential stream.
C3_Witness ==
    /\ prefetch > 0 /\ n >= 2 /\ AllOk /\ EndedNaturally
    /\ overtook # {}
    /\ out = SequentialRun(1, <<>>)

\* C4: in a prefetching run no batch is yielded twice, and a batch whose chain
\* raised Skip or another exception is never yielded.
C4_AtMostOnce ==
    prefetch > 0 =>
        /\ \A a, b \in DOMAIN out : a # b => out[a] # out[b]
        /\ \A a \in DOMAIN out : outcome[out[a].idx] = "ok"

\* C5: when a batch's chain raises an exception other than Skip, the consumer
\* pushes nothing to the delivery queue for it and keeps running.
C5_ErrorIsDropped ==
    prefetch > 0 =>
        /\ cpc # "dead"
        /\ cpc = "c_put" => outcome[cfuture.idx] = "ok"

\* C7: reset_iter called during a prefetching run always completes: while it
\* runs, some thread can always take a step.
C7_ResetCompletes ==
    (prefetch > 0 /\ resetBy = "caller" /\ InReset) => ENABLED ResetNext

\* C8: a run started after the caller reset a partly consumed prefetching run
\* holds no item, token or task of the aborted run and, when it ends, has
\* yielded one result per generated batch.
C8_FreshRunAfterReset ==
    (aborted /\ prefetch > 0 /\ gpc # "idle") =>
        /\ prefetch_queue # None =>
            \A k \in DOMAIN prefetch_queue.items :
                prefetch_queue.items[k].run = run
        /\ batch_queue # None =>
            \A k \in DOMAIN batch_queue.items : batch_queue.items[k].run = run
        /\ prefetch_count # None => Len(prefetch_count.items) <= gen_pos
        /\ \A k \in DOMAIN out : out[k].run = run
        /\ executor # None =>
            \A i \in 1..n : futures[i] # "none" => i < gen_pos
        /\ (AllOk /\ EndedNaturally) => out = Generated

\* C8 witness: the second run, started after the caller reset the first one
\* with batches still undelivered, ended with the full epoch.
C8_Witness ==
    /\ aborted /\ prefetch > 0 /\ n >= 2 /\ AllOk /\ EndedNaturally
    /\ out = Generated

(* ======================= properties of composition ====================== *)
Composing == {"append", "join", "add", "matmul", "mul", "lshift"}

\* C6: running P * 0, P not empty, dispatches no action and gives back the
\* batch it was given.
C6_RepeatZeroRunsNothing ==
    (/\ last.op = "exec"
     /\ made[last.a].op = "mul"
     /\ made[last.a].b = PyInt(0)
     /\ num_actions(World, made[last.a].a) > 0)
        => last.exec.err = "" /\ last.exec.batch = Batch(1)

\* C9: a composing operator leaves the pipelines it was applied to as they
\* were: the same dataset and the same actions with the same name, args, proba
\* and repeat.
C9_OperandsUnchanged ==
    (last.op \in Composing /\ last.err = "") =>
        /\ View(World, last.a) = View(last.before, last.a)
        /\ last.op = "add" => View(World, last.b) = View(last.before, last.b)

\* C10: P + Q raises when P and Q are bound to two different datasets;
\* otherwise its result holds P's actions followed by Q's and is bound to the
\* dataset P or Q is bound to, for empty operands too.
C10_AddIsConcat ==
    last.op = "add" =>
        LET P == View(last.before, last.a)
            Q == View(last.before, last.b)
        IN IF P.dataset # 0 /\ Q.dataset # 0 /\ P.dataset # Q.dataset
           THEN last.err # ""
           ELSE /\ last.err = ""
                /\ View(World, last.res).actions = P.actions \o Q.actions
                /\ View(World, last.res).dataset =
                       IF P.dataset # 0 THEN P.dataset ELSE Q.dataset

\* the factor a proba or a repeat stands for: an unset one counts as 1
Factor(x) == IF x = NoVal THEN <<1, 1>> ELSE x[1]

IsProbability(arg) == arg.val[1] >= 0 /\ arg.val[1] <= arg.val[2]

\* the last call applied op to the pipeline the call right before it had built
\* with op: the expression (P op x1) op x2
Twice(op) ==
    /\ last.op = op
    /\ last.err = ""
    /\ last.a = Len(last.before.pipes)
    /\ made[last.a].op = op

TwiceProba ==
    /\ Twice("matmul")
    /\ IsProbability(made[last.a].b) /\ IsProbability(last.b)
    /\ Len(made[last.a].src.actions) = 1
    /\ made[last.a].src.actions[1].repeat = NoVal

TwiceRepeat ==
    /\ Twice("mul")
    /\ Len(made[last.a].src.actions) = 1
    /\ made[last.a].src.actions[1].proba = NoVal

\* C11 as stated: for a one-descriptor P whose repeat is unset, (P @ p1) @ p2 has
\* one descriptor, with proba p1 * p2; for a one-descriptor P whose proba is
\* unset, (P * n1) * n2 has one descriptor, with repeat n1 * n2.
C11_TwiceMultiplies ==
    /\ TwiceProba =>
        /\ num_actions(World, last.res) = 1
        /\ Factor(LastDict(World, last.res).proba)
               = Times(made[last.a].b.val, last.b.val)
    /\ TwiceRepeat =>
        /\ num_actions(World, last.res) = 1
        /\ Factor(LastDict(World, last.res).repeat)
               = Times(made[last.a].b.val, last.b.val)

\* C11 amended: the descriptor of (P @ p1) @ p2 has proba p0 * p1 * p2 and the
\* descriptor of (P * n1) * n2 has repeat n0 * n1 * n2, where p0 and n0 are the
\* proba and the repeat P's descriptor carried already (1 when unset).
C11_TwiceMultipliesInto ==
    /\ TwiceProba =>
        /\ num_actions(World, last.res) = 1
        /\ Factor(LastDict(World, last.res).proba)
               = Times(Factor(made[last.a].src.actions[1].proba),
                       Times(made[last.a].b.val, last.b.val))
    /\ TwiceRepeat =>
        /\ num_actions(World, last.res) = 1
        /\ Factor(LastDict(World, last.res).repeat)
               = Times(Factor(made[last.a].src.actions[1].repeat),
                       Times(made[last.a].b.val, last.b.val))

\* C11 witness: (P @ 0.5) @ 0.5 on a one-action P was built and its action
\* carries proba 0.25.
C11_Witness ==
    /\ TwiceProba
    /\ made[last.a].b = PyFloat(1, 2) /\ last.b = PyFloat(1, 2)
    /\ LastDict(World, last.res).name \in Names
    /\ LastDict(World, last.res).proba = Val(<<1, 4>>)

\* C12: attaching a probability or a repeat count raises, and builds no
\* pipeline, when the pipeline is empty or has several actions, when the repeat
\* count is negative or not an integer, and when the value is not a probability.
C12_InvalidCompositionRaises ==
    /\ (last.op \in {"matmul", "mul"} /\ num_actions(last.before, last.a) # 1)
          => (last.err # "" /\ last.res = 0)
    /\ (last.op = "mul" /\ (last.b.val[1] < 0 \/ last.b.type # "int"))
          => (last.err # "" /\ last.res = 0)
    /\ (last.op = "matmul" /\ ~IsProbability(last.b))
          => (last.err # "" /\ last.res = 0)

\* the last call gave back a pipeline of one nested-pipeline descriptor that
\* refers to the operand and carries the given proba and repeat
Wrapped(proba, repeat) ==
    /\ num_actions(World, last.res) = 1
    /\ LastDict(World, last.res) = NestedDict(last.a, proba, repeat)
    /\ View(World, last.a) = View(last.before, last.a)

\* the last call composed a probability (other than 1) or a repeat count
AttachesProba ==
    /\ last.op = "matmul" /\ last.err = ""
    /\ IsProbability(last.b) /\ last.b.val # <<1, 1>>
AttachesRepeat == last.op = "mul" /\ last.err = ""

\* C17: in the pipelines built from an empty pipeline by the operators no
\* descriptor carries both a proba and a repeat; composing a probability onto
\* a pipeline whose descriptor carries a repeat, or a repeat onto one whose
\* descriptor carries a proba, gives a pipeline of one nested-pipeline
\* descriptor around the operand.
C17_NeverBothGates ==
    /\ \A k \in DOMAIN heap : heap[k].proba = NoVal \/ heap[k].repeat = NoVal
    /\ (AttachesProba /\ LastDict(last.before, last.a).repeat # NoVal)
          => Wrapped(Val(last.b.val), NoVal)
    /\ (AttachesRepeat /\ num_actions(last.before, last.a) > 0
                       /\ LastDict(last.before, last.a).proba # NoVal)
          => Wrapped(NoVal, Val(last.b.val))

\* C17 witness: (P @ 0.5) * 2 on a one-action P was built: a nested-pipeline
\* descriptor with repeat 2 around the pipeline whose action carries proba 0.5.
C17_Witness ==
    /\ AttachesRepeat /\ last.b = PyInt(2)
    /\ num_actions(last.before, last.a) = 1
    /\ LastDict(last.before, last.a).name \in Names
    /\ LastDict(last.before, last.a).proba = Val(<<1, 2>>)
    /\ LastDict(World, last.res).name = PIPELINE_ID
    /\ LastDict(World, last.res).repeat = Val(<<2, 1>>)

(* ======================= properties of the executor ===================== *)
Ordinary(d) == d.name \notin {JOIN_ID, PIPELINE_ID}

\* the action list that holds the descriptor at address k
ListOf(k) ==
    IF \E i \in DOMAIN pipes[1].action_list : pipes[1].action_list[i] = k
    THEN pipes[1].action_list
    ELSE pipes[2].action_list

PosIn(list, k) == CHOOSE i \in DOMAIN list : list[i] = k

\* the join markers before position i of a list with no ordinary descriptor
\* between them and i
MarkersBefore(list, i) ==
    {j \in 1..(i - 1) :
        /\ heap[list[j]].name = JOIN_ID
        /\ \A m \in (j + 1)..(i - 1) : ~Ordinary(heap[list[m]])}

\* what the claim says the descriptor at position i is dispatched with
ExpectedArgs(list, i, index) ==
    LET js == MarkersBefore(list, i)
        j == CHOOSE x \in js : \A y \in js : y <= x
        ds == heap[list[j]].datasets
    IN IF js = {} THEN heap[list[i]].args
       ELSE [k \in 1..Len(ds) |-> [dataset |-> ds[k], index |-> index]]
                \o heap[list[i]].args

\* the descriptor a dispatch came from: the own argument of each action is its
\* address
AddressOf(call) == call.args[Len(call.args)].const

\* C13: an action that comes next after a join marker in its descriptor list
\* (join markers and nested pipelines aside) is dispatched with one batch per
\* joined source, created from the current batch's index, in source order,
\* before its own args; every other action is dispatched with its own args.
C13_JoinFeedsNextAction ==
    last.op = "exec" =>
        \A c \in DOMAIN last.exec.batch.calls :
            LET call == last.exec.batch.calls[c]
                list == ListOf(AddressOf(call))
            IN call.args = ExpectedArgs(list, PosIn(list, AddressOf(call)),
                                        last.exec.batch.index)

\* C13 witness: a run in which one action was dispatched with the batches of
\* two joined sources before its own argument and a later action of the same
\* list with its own argument alone.
C13_Witness ==
    /\ last.op = "exec" /\ last.exec.err = ""
    /\ \E c1, c2 \in DOMAIN last.exec.batch.calls :
        LET x == last.exec.batch.calls[c1]
            y == last.exec.batch.calls[c2]
        IN /\ c1 < c2
           /\ Len(x.args) = 3 /\ x.args[1].dataset = NumDatasets
           /\ Len(y.args) = 1
           /\ ListOf(AddressOf(x)) = ListOf(AddressOf(y))
           /\ PosIn(ListOf(AddressOf(x)), AddressOf(x))
                < PosIn(ListOf(AddressOf(y)), AddressOf(y))

\* "repeat times": the count a descriptor stands for, once when unset
Claimed(repeat) == IF repeat = NoVal THEN 1 ELSE repeat[1][1]

\* how many times the action at address k was dispatched in the last run
Dispatches(k) ==
    Cardinality({c \in DOMAIN last.exec.batch.calls :
                    AddressOf(last.exec.batch.calls[c]) = k})

RECURSIVE SumClaimed(_)
SumClaimed(S) ==
    IF S = {} THEN 0
    ELSE LET x == CHOOSE y \in S : TRUE
         IN Claimed(heap[x].repeat) + SumClaimed(S \ {x})

\* the numbers of times the nested pipeline's list can have been run: each
\* nested descriptor of the list contributes its repeat count or, when it
\* carries a proba, its repeat count or nothing
InnerRuns(list) ==
    LET nested == {list[i] : i \in {j \in DOMAIN list : heap[list[j]].name = PIPELINE_ID}}
        sure == {k \in nested : heap[k].proba = NoVal}
    IN {SumClaimed(sure \cup S) : S \in SUBSET (nested \ sure)}

\* C16: on a visit of a descriptor one firing decision is made: an ordinary
\* action is dispatched repeat times or not at all, and a nested pipeline's
\* list is run repeat times or not at all, every descriptor of the list being
\* visited once per run.
C16_OneDecisionPerVisit ==
    (last.op = "exec" /\ last.exec.err = "") =>
        LET top == pipes[last.a].action_list
            inner == pipes[2].action_list
        IN /\ \A i \in DOMAIN top :
                Ordinary(heap[top[i]]) =>
                    Dispatches(top[i]) \in
                        IF heap[top[i]].proba = NoVal
                        THEN {Claimed(heap[top[i]].repeat)}
                        ELSE {0, Claimed(heap[top[i]].repeat)}
           /\ last.a = 1 =>
                \A i \in DOMAIN inner :
                    Ordinary(heap[inner[i]]) =>
                        \E m \in InnerRuns(top) :
                            Dispatches(inner[i]) \in
                                IF heap[inner[i]].proba = NoVal
                                THEN {m * Claimed(heap[inner[i]].repeat)}
                                ELSE {j * Claimed(heap[inner[i]].repeat) : j \in 0..m}

\* C19: the executor forwards a batch to the sink only on a visit where the
\* action of a descriptor that carries the sink fired: the last action
\* dispatched on a forwarded batch is the action of such a descriptor.
C19_SinkOnlyWhenFired ==
    last.op = "exec" =>
        \A s \in DOMAIN last.exec.sink :
            LET calls == last.exec.sink[s].calls
            IN /\ calls # <<>>
               /\ \E k \in DOMAIN heap :
                    /\ heap[k].tf_queue
                    /\ heap[k].name = calls[Len(calls)].name

\* the world in which the list of pipeline p holds no nested-pipeline descriptor
WithoutNested(w, p) ==
    [w EXCEPT !.pipes[p].action_list =
                  SelectSeq(@, LAMBDA k : w.heap[k].name # PIPELINE_ID)]

\* C21: the executor terminates on every descriptor tree, and a nested
\* descriptor whose inner pipeline is empty leaves the batch as it is: the run
\* ends without exhausting the call stack, and when the nested pipeline is empty
\* its batch is one the list without the nested descriptors gives.
C21_EmptyNestedIsNoOp ==
    last.op = "exec" =>
        /\ last.exec.err # "RecursionError"
        /\ (last.a = 1 /\ pipes[2].action_list = <<>>) =>
              \E coins \in CoinSeqs :
                  Exec(WithoutNested(World, 1), 1, Batch(1), coins).batch
                      = last.exec.batch

(* ---------------- properties of the admission tokens ---------------- *)
\* batch i of the current run is held by the producer, a queue or the consumer
InSystem(i) ==
    \/ ppc = "p_put" /\ gen_pos - 1 = i
    \/ prefetch_queue # None
         /\ \E k \in DOMAIN prefetch_queue.items : prefetch_queue.items[k] = Item(run, i)
    \/ cpc = "c_result" /\ cfuture = Item(run, i)
    \/ cpc = "c_put" /\ cbatch = Item(run, i)
    \/ batch_queue # None
         /\ \E k \in DOMAIN batch_queue.items : batch_queue.items[k] = Item(run, i)

Yielded(i) == \E k \in DOMAIN out : out[k] = Item(run, i)

\* the batches pulled from the source that were neither yielded nor dropped
Outstanding == {i \in 1..n : i < gen_pos /\ InSystem(i) /\ ~Yielded(i)}

\* C14: in a prefetching run of depth d at most d + 1 pulled batches are
\* neither yielded nor dropped, the future queue holds at most d entries and the
\* delivery queue at most one.
C14_OutstandingBounded ==
    (prefetch > 0 /\ prefetch_queue # None) =>
        /\ Cardinality(Outstanding) <= prefetch + 1
        /\ Len(prefetch_queue.items) <= prefetch
        /\ Len(batch_queue.items) <= 1

\* C14 witness: depth + 1 batches are outstanding, the future queue holds depth
\* futures and the delivery queue one batch.
C14_Witness ==
    /\ prefetch > 0 /\ prefetch_queue # None
    /\ Cardinality(Outstanding) = prefetch + 1
    /\ Len(prefetch_queue.items) = prefetch
    /\ Len(batch_queue.items) = 1
    /\ gen_pos <= n

\* the token the producer put before a pull it has not made yet, or before the
\* pull that found the source exhausted (lines 327-331)
ProducerSlack ==
    IF ppc = "p_next" \/ (ppc \in {"p_final", "done"} /\ gen_pos > n) THEN 1 ELSE 0

\* C15: in a prefetching run the token of every item the consumer has handled
\* is released, whether the item was delivered, skipped or failed: once the
\* consumer waits for the next future and the caller waits for the next batch,
\* the admission queue holds tokens only for the batches still outstanding and
\* for the producer's pending pull.
C15_TokenReleasedAfterHandling ==
    (prefetch > 0 /\ prefetch_count # None /\ cpc = "c_get" /\ gpc = "g_get") =>
        Len(prefetch_count.items) <= Cardinality(Outstanding) + ProducerSlack

(* ---------------- properties of a failing dispatch ---------------- *)
\* A capability error (lines 203, 205, 207) is raised by the chain of the
\* batches on which the faulty descriptor fires: it is one of the exceptions
\* other than Skip, outcome "err".
FirstError(i) == outcome[i] = "err" /\ \A j \in 1..(i - 1) : outcome[j] # "err"

\* C18: a capability error is fatal with and without prefetching: when the
\* chain of batch i is the first to raise it, nothing is delivered beyond the
\* batches before i, the run does not end as a run without error does, and the
\* caller is not left waiting for a consumer task that is over.
C18_CapabilityErrorIsFatal ==
    \A i \in 1..n :
        FirstError(i) =>
            /\ Len(out) <= i - 1
            /\ \A k \in DOMAIN out : out[k].idx < i
            /\ ~EndedNaturally
            /\ ~(gpc = "g_get" /\ cpc = "dead" /\ Empty(batch_queue))

(* ---------------- termination of a prefetching run ---------------- *)
\* a thread waits in a blocking put or get (lines 327, 334, 335; 340, 343, 356;
\* 432, 436)
ProducerBlocked ==
    \/ ppc = "p_token" /\ Full(prefetch_count)
    \/ ppc \in {"p_put", "p_final"} /\ Full(prefetch_queue)
ConsumerBlocked ==
    \/ cpc = "c_get" /\ Empty(prefetch_queue)
    \/ cpc \in {"c_put", "c_sentinel"} /\ Full(batch_queue)
CallerBlocked ==
    \/ gpc = "g_get" /\ Empty(batch_queue)
    \/ gpc = "g_release" /\ Empty(prefetch_count)

\* C20: a prefetching run whose caller keeps asking for batches terminates
\* whatever the batches' outcomes: until the teardown is over some thread can
\* take a step, and producer, consumer and caller are never all three waiting
\* on a queue.
C20_PrefetchRunTerminates ==
    prefetch > 0 =>
        /\ gpc = "finished" \/ ENABLED RunNext
        /\ prefetch_count # None =>
              ~(ProducerBlocked /\ ConsumerBlocked /\ CallerBlocked)

====
